---- MODULE Spec2Model ----
(***************************************************************************)
(* Nuphar execution provider: the reduce vectorization planner             *)
(* (compiler/x86/op_ir_creator/math/reduce_ops.cc) and the construction of *)
(* the provider with its code generation target                            *)
(* (nuphar_execution_provider.cc).                                         *)
(*                                                                         *)
(* Spec        one call of FuncReduceV::operator(), the walk of            *)
(*             VectorWidthAndFuseDimForReduce taken one loop iteration at  *)
(*             a time.                                                     *)
(* SpecTarget  construction of NupharExecutionProvider.                    *)
(***************************************************************************)
EXTENDS Integers, Sequences, FiniteSets, TLC

(***************************************************************************)
(* Bounds of the model.                                                    *)
(***************************************************************************)
\* largest tensor rank explored
MaxRank == 3

\* statically known extents explored (dim_value of a dimension)
ExtentValues == {1, 2, 3, 4, 8, 16}

\* values of NaturalVectorWidth(bits) explored
NaturalWidths == {1, 4, 8, 16}

\* a dimension that has no dim_value (symbolic or missing)
Unknown == -1

\* a dim_value of 2^32, an int64 no integer of the model checker can hold:
\* the entry of a shape that stands for it
Extent2Pow32 == -2

(***************************************************************************)
(* State of one reduce planning call.                                      *)
(***************************************************************************)
VARIABLES
  def,               \* def_: shape of the NodeArg, [0..rank-1 -> extent or Unknown]
  axes_,             \* FuncReduceV::axes_, sorted by the constructor
  natural_width,     \* natural_vector_(X->dtype.bits())
  pc,                \* position inside operator() / the planner
  axes,              \* axes after HandleNegativeAxis
  i,                 \* loop index of the walk
  j,                 \* index of the next unconsumed reduction axis
  tail_size,         \* running product
  acc,               \* indices of the dimensions multiplied into tail_size
  stop_index,        \* loop index at which the planner returned (-1: loop ran out)
  ret_path,          \* which return statement produced the result
  vector_width,      \* std::get<0>(p)
  fuse_dim,          \* std::get<1>(p)
  last_dim_aligned   \* argument handed to func_

planVars == <<def, axes_, natural_width, pc, axes, i, j, tail_size, acc,
              stop_index, ret_path, vector_width, fuse_dim, last_dim_aligned>>

(***************************************************************************)
(* State of the construction of one NupharExecutionProvider.               *)
(***************************************************************************)
VARIABLES
  use_tvm_with_llvm,        \* the build defines USE_TVM_WITH_LLVM
  has_avx512f,              \* CPUIDInfo::HasAVX512f()
  has_avx2,                 \* CPUIDInfo::HasAVX2()
  has_target_option,        \* settings.HasOption(kNupharCodeGenTarget)
  target_option,            \* settings.GetOptionValue(kNupharCodeGenTarget)
  enable_per_node_parallel, \* info.enable_per_node_parallel
  allow_unaligned_buffers,  \* info.allow_unaligned_buffers
  ctor_pc,                  \* position inside the constructor
  target_str,               \* the constructor's local target_str
  codegen_target_,          \* NupharExecutionProvider::codegen_target_
  tvm_target_,              \* name handed to tvm::Target::create by CreateTVMTarget
  tvm_host_target_,         \* name handed to tvm::Target::create for the host
  handle                    \* the NupharCodeGenHandle pushed to codegen_handles_

ctorVars == <<use_tvm_with_llvm, has_avx512f, has_avx2, has_target_option,
              target_option, enable_per_node_parallel, allow_unaligned_buffers,
              ctor_pc, target_str, codegen_target_, tvm_target_,
              tvm_host_target_, handle>>

(***************************************************************************)
(* State of one evaluation of GetCapability's is_supported_func.           *)
(***************************************************************************)
VARIABLES
  sup_graph,   \* graph_viewer: the node under test and its initializers
  sup_result,  \* the value is_supported_func returned
  sup_pc       \* position of the evaluation

supVars == <<sup_graph, sup_result, sup_pc>>

(***************************************************************************)
(* State of a constructed NupharExecutionProvider and of the session that  *)
(* loads graphs on it, on one thread.                                      *)
(***************************************************************************)
VARIABLES
  constant_initializers_used_in_compiled_nodes_,  \* name -> owned tensor
  domain_versions_,        \* domain -> opset version seen (0: none)
  gc_graph,                \* the graph given to the last GetCapability
  gc_status,               \* "none", "returned" or "threw"
  results,                 \* the capabilities GetCapability returned
  counter,                 \* thread_local NupharSubgraphUnit::counter
  compiled,                \* Compile has filled node_compute_funcs
  state,                   \* the FunctionState the session holds
  teardowns,               \* destructor runs on the created kernel state
  crashed,                 \* the process died of a double delete
  compute_call,            \* the last call of compute_func
  first_id,                \* first subgraph id assigned in the current load
  first_id_after_compile,  \* first id assigned after the load's Compile
  last_op,                 \* the operation that ran last
  other_counter,           \* NupharSubgraphUnit::counter of a second thread
  last_thread              \* the thread that took the last step

epVars ==
  <<constant_initializers_used_in_compiled_nodes_, domain_versions_,
    gc_graph, gc_status, results, counter, compiled, state, teardowns,
    crashed, compute_call, first_id, first_id_after_compile, last_op,
    other_counter, last_thread>>

(***************************************************************************)
(* State of one call of UnpackTensorWithRawData.                           *)
(***************************************************************************)
VARIABLES
  unpack_in,   \* raw_data, sizeof(T), expected_size, the host's byte order
               \* and what p_data held before
  unpack_out,  \* returned or threw, p_data afterwards, writes outside it
  unpack_pc    \* position of the call

unpackVars == <<unpack_in, unpack_out, unpack_pc>>

vars == <<planVars, ctorVars, supVars, epVars, unpackVars>>

(***************************************************************************)
(* Helpers on shapes and integers.                                         *)
(***************************************************************************)
ShapeRank(d) == Cardinality(DOMAIN d)

ShapeHasValue(d, k) == d[k] # Unknown

ShapeValue(d, k) == d[k]

\* length of a 0-indexed vector
Size(v) == Cardinality(DOMAIN v)

\* the elements of S in increasing order, as a 0-indexed vector (std::sort)
SortedVector(S) ==
  [k \in 0 .. Cardinality(S) - 1 |->
     CHOOSE x \in S : Cardinality({y \in S : y < x}) = k]

HandleNegativeAxis(axis, tensor_rank) ==
  IF axis < 0 THEN axis + tensor_rank ELSE axis


(***************************************************************************)
(* VectorWidthAndFuseDimForReduce: the pieces of the three walks.          *)
(* A result is the tuple <<vector_width, fuse_dim>>.                       *)
(***************************************************************************)
\* rank == 0
RankZeroResult == <<1, 0>>

\* reduce all: the dimension is multiplied into tail_size
ReduceAllAccumulates(d, idx) == ShapeHasValue(d, idx)

\* mutant: the stop branch hands back natural_width at every index
ReduceAllStopResult_Natural(nw, tail, idx) ==
  IF idx > 0 THEN <<nw, idx - 1>> ELSE <<nw, 0>>

\* reduce all: the else branch, a dimension without value
ReduceAllStopResult(nw, tail, idx) ==
  IF idx > 0 THEN <<tail, idx - 1>> ELSE <<nw, 0>>

\* mutant: the comparison is turned around
ReduceAllCapReached_Flipped(tail, nw) == tail <= nw

\* reduce all: tail_size >= natural_width
ReduceAllCapReached(tail, nw) == tail >= nw

\* mutant: the cap reports the next outer index
ReduceAllCapResult_Outer(nw, idx) == <<nw, IF idx > 0 THEN idx - 1 ELSE 0>>

ReduceAllCapResult(nw, idx) == <<nw, idx>>

\* reduce all: the loop ran over every dimension
ReduceAllExhaustResult(tail) == <<tail, 0>>

\* reduce last: the dimension is multiplied into tail_size
ReduceLastAccumulates(d, ax, idx, jj) ==
  ShapeHasValue(d, idx) /\ ax[jj] = idx

ReduceLastStopResult(nw, tail, idx) ==
  IF idx > 0 THEN <<tail, idx - 1>> ELSE <<nw, 0>>

ReduceLastCapReached(tail, nw) == tail >= nw

\* mutant: the cap reports index 0
ReduceLastCapResult_Zero(nw, idx) == <<nw, 0>>

ReduceLastCapResult(nw, idx) == <<nw, idx>>

ReduceLastExhaustResult(tail) == <<tail, 0>>

\* reduce other: the dimension is multiplied into tail_size
ReduceOtherAccumulates(d, ax, idx, jj) ==
  ShapeHasValue(d, idx) /\ ax[jj] # idx

\* mutant: the stop branch always falls back to (natural_width, 0)
ReduceOtherStopResult_Fallback(nw, tail, idx) == <<nw, 0>>

ReduceOtherStopResult(nw, tail, idx) ==
  IF idx > 0 THEN <<tail, idx - 1>> ELSE <<nw, 0>>

ReduceOtherCapReached(tail, nw) == tail >= nw

ReduceOtherCapResult(nw, idx) == <<nw, idx>>

ReduceOtherExhaustResult(tail) == <<tail, 0>>

\* gsl::narrow_cast<int> of an int64 extent keeps its low 32 bits: 2^32
\* becomes 0, an extent that fits an int is unchanged
NarrowCast(v) == IF v = Extent2Pow32 THEN 0 ELSE v

\* the remainder of an int64 extent by m > 0; 2^32 = 65536 * 65536
Int64Mod(v, m) ==
  IF v = Extent2Pow32 THEN ((65536 % m) * (65536 % m)) % m ELSE v % m

\* tail_size *= gsl::narrow_cast<int>(ShapeValue(def, i)).  Every extent of
\* ExtentValues fits an int and tail_size is below natural_width before the
\* product, so the product stays in the int range.
Accumulate(tail, d, idx) == tail * NarrowCast(ShapeValue(d, idx))

\* if (j > 0) --j
ConsumeAxis(jj) == IF jj > 0 THEN jj - 1 ELSE jj

(***************************************************************************)
(* FuncReduceV::operator(): last_dim_aligned.  X->shape is the shape of    *)
(* def_.  Indexing X->shape with size() - 1 when the shape is empty, and   *)
(* the remainder by a zero vector_width, are undefined: any outcome.       *)
(***************************************************************************)
\* mutant: the operands of the remainder are swapped
LastDimAlignedOutcomes_Swapped(d, vw) ==
  IF ShapeRank(d) = 0 \/ vw = 0
  THEN BOOLEAN
  ELSE IF ShapeHasValue(d, ShapeRank(d) - 1)
       THEN {vw % ShapeValue(d, ShapeRank(d) - 1) = 0}
       ELSE {FALSE}

LastDimAlignedOutcomes(d, vw) ==
  IF ShapeRank(d) = 0 \/ vw = 0
  THEN BOOLEAN
  ELSE IF ShapeHasValue(d, ShapeRank(d) - 1)
       THEN LET last == ShapeValue(d, ShapeRank(d) - 1)
                m    == IF vw > 0 THEN vw ELSE 0 - vw
            IN  {Int64Mod(last, m) = 0}
       ELSE {FALSE}

(***************************************************************************)
(* Initial states: a constructed FuncReduceV.  The constructor has sorted  *)
(* axes_; negative axes (here -1) are still negative.                      *)
(***************************************************************************)
Ranks == 0 .. MaxRank

Shapes == UNION {[0 .. r - 1 -> ExtentValues \cup {Unknown}] : r \in Ranks}

AxisAttrValues(r) == IF r = 0 THEN {} ELSE -1 .. r - 1

\* a code generation target: its class or factory, its target name and its
\* vector bits, as far as the constructor's call gives them (0: not given)
Target(cls, name, bits) == [cls |-> cls, name |-> name, bits |-> bits]

\* an empty std::unique_ptr<CodeGenTarget>
NullTarget == Target("nullptr", "", 0)

\* no code generation handle yet
NullHandle ==
  [codegen_target |-> NullTarget,
   enable_per_node_parallelized |-> FALSE,
   allow_unaligned_buffers |-> FALSE]

(***************************************************************************)
(* Graph data: dimensions, shapes, node arguments, tensor protos, nodes.   *)
(***************************************************************************)
\* a TensorShapeProto dimension: dim_value, dim_param, or neither
DimValue(v) == [kind |-> "value", v |-> v]

DimParam == [kind |-> "param", v |-> 0]

DimNone == [kind |-> "none", v |-> 0]

\* def.Shape(): a nullptr, or the dimensions
NoShape == [present |-> FALSE, dim |-> << >>]

ShapeOf(dims) == [present |-> TRUE, dim |-> dims]

\* a NodeArg
Arg(name, shape) == [name |-> name, shape |-> shape]

\* a TensorProto: data_type, shape.Size(), raw_data().size(), the size of the
\* typed repeated field, the values it carries, and the int64 values read
\* from it when it is an axes operand
Proto(dt, size, raw_len, field_size, payload, ints) ==
  [present |-> TRUE, data_type |-> dt, size |-> size, raw_len |-> raw_len,
   field_size |-> field_size, payload |-> payload, ints |-> ints]

\* the name is no initializer of the graph
NoProto ==
  [present |-> FALSE, data_type |-> "UNDEFINED", size |-> 0, raw_len |-> 0,
   field_size |-> 0, payload |-> "", ints |-> << >>]

\* names that may carry an initializer tensor
TensorNames == {"W", "R", "axes"}

NoTensors == [n \in TensorNames |-> NoProto]

\* a Node; inputs[k + 1] is the code's InputDefs()[k]
Node(name, op, has_kernel, inputs, outputs, attr_axes) ==
  [name |-> name, op_type |-> op, has_kernel |-> has_kernel,
   inputs |-> inputs, outputs |-> outputs, attr_axes |-> attr_axes]

\* a GraphViewer: nodes in topological order, initializers, the names for
\* which IsConstantInitializer(name, true) holds, the outcome of
\* ShapeInference on it, and DomainToVersionMap (0: domain not in the map)
Graph(nodes, tensors, constants, inference_ok, versions) ==
  [nodes |-> nodes, tensors |-> tensors, constants |-> constants,
   shape_inference_ok |-> inference_ok, domain_to_version |-> versions]

\* the opset domains explored
Domains == {"", "com.microsoft"}

NoVersions == [d \in Domains |-> 0]

EmptyGraph == Graph(<< >>, NoTensors, {}, TRUE, NoVersions)

\* no evaluation of is_supported_func is in progress
SupIdle ==
  /\ sup_graph = EmptyGraph
  /\ sup_result = FALSE
  /\ sup_pc = "idle"

\* an owned Tensor of the store
Tensor(dt, size, payload) ==
  [present |-> TRUE, data_type |-> dt, size |-> size, payload |-> payload]

\* find(name) == end()
NoTensor ==
  [present |-> FALSE, data_type |-> "UNDEFINED", size |-> 0, payload |-> ""]

\* no subgraph id has been assigned
NoId == -1

\* compute_func has not been called on the state
NoCall == [invocations |-> 0, kernel_status |-> "", returned |-> ""]

\* a provider on which nothing was loaded
EpIdle ==
  /\ constant_initializers_used_in_compiled_nodes_
       = [n \in TensorNames |-> NoTensor]
  /\ domain_versions_ = NoVersions
  /\ gc_graph = EmptyGraph
  /\ gc_status = "none"
  /\ results = << >>
  /\ counter = 0
  /\ compiled = FALSE
  /\ state = "null"
  /\ teardowns = 0
  /\ crashed = FALSE
  /\ compute_call = NoCall
  /\ first_id = NoId
  /\ first_id_after_compile = NoId
  /\ last_op = "none"
  /\ other_counter = 0
  /\ last_thread = "main"

\* the arguments of a call: no call yet
NoUnpackCall ==
  [raw |-> << >>, type_size |-> 1, expected_size |-> 0,
   little_endian |-> TRUE, prior |-> 0]

\* the effect of a call: no call yet
NoUnpackResult ==
  [status |-> "none", p_data |-> << >>, written |-> {}, outside |-> {}]

\* UnpackTensorWithRawData is not being called
UnpackIdle ==
  /\ unpack_in = NoUnpackCall
  /\ unpack_out = NoUnpackResult
  /\ unpack_pc = "idle"

\* no provider is under construction
CtorIdle ==
  /\ use_tvm_with_llvm = TRUE
  /\ has_avx512f = FALSE
  /\ has_avx2 = FALSE
  /\ has_target_option = FALSE
  /\ target_option = ""
  /\ enable_per_node_parallel = FALSE
  /\ allow_unaligned_buffers = FALSE
  /\ ctor_pc = "idle"
  /\ target_str = ""
  /\ codegen_target_ = NullTarget
  /\ tvm_target_ = ""
  /\ tvm_host_target_ = ""
  /\ handle = NullHandle

Init ==
  /\ CtorIdle
  /\ SupIdle
  /\ EpIdle
  /\ UnpackIdle
  /\ def \in Shapes
  /\ \E S \in SUBSET AxisAttrValues(ShapeRank(def)) : axes_ = SortedVector(S)
  /\ natural_width \in NaturalWidths
  /\ pc = "start"
  /\ axes = << >>
  /\ i = 0
  /\ j = 0
  /\ tail_size = 0
  /\ acc = {}
  /\ stop_index = -1
  /\ ret_path = "none"
  /\ vector_width = 0
  /\ fuse_dim = 0
  /\ last_dim_aligned = FALSE

\* shapes with extents of 2^32 among small ones
WideShapes ==
  UNION {[0 .. r - 1 -> {1, 4, Extent2Pow32, Unknown}] : r \in Ranks}

\* a planning call on a shape that may have extents of 2^32
InitWide ==
  /\ CtorIdle
  /\ SupIdle
  /\ EpIdle
  /\ UnpackIdle
  /\ def \in WideShapes
  /\ \E S \in SUBSET AxisAttrValues(ShapeRank(def)) : axes_ = SortedVector(S)
  /\ natural_width \in NaturalWidths
  /\ pc = "start"
  /\ axes = << >>
  /\ i = 0
  /\ j = 0
  /\ tail_size = 0
  /\ acc = {}
  /\ stop_index = -1
  /\ ret_path = "none"
  /\ vector_width = 0
  /\ fuse_dim = 0
  /\ last_dim_aligned = FALSE

\* return std::make_tuple(...)
Return(p, path, idx) ==
  /\ vector_width' = p[1]
  /\ fuse_dim' = p[2]
  /\ ret_path' = path
  /\ stop_index' = idx
  /\ pc' = "returned"

(***************************************************************************)
(* operator() up to the entry of the walk: HandleNegativeAxis on every     *)
(* axis, then the planner's rank test and the choice of the pattern.       *)
(***************************************************************************)
Call ==
  /\ pc = "start"
  /\ LET rank == ShapeRank(def)
         ax   == [k \in DOMAIN axes_ |-> HandleNegativeAxis(axes_[k], rank)]
     IN  /\ axes' = ax
         /\ IF rank = 0
            THEN /\ Return(RankZeroResult, "rank0", -1)
                 /\ UNCHANGED <<i, j, tail_size>>
            ELSE /\ tail_size' = 1
                 /\ i' = rank - 1
                 /\ IF Size(ax) = 0
                    THEN /\ pc' = "reduce_all"
                         /\ j' = j
                    ELSE /\ j' = Size(ax) - 1
                         /\ pc' = IF ax[Size(ax) - 1] = rank - 1
                                  THEN "reduce_last"
                                  ELSE "reduce_other"
                 /\ UNCHANGED <<vector_width, fuse_dim, ret_path, stop_index>>
  /\ UNCHANGED <<def, axes_, natural_width, acc, last_dim_aligned>>
  /\ UNCHANGED <<ctorVars, supVars, epVars, unpackVars>>

\* one iteration of the reduce all loop, or its exit
ReduceAllStep ==
  /\ pc = "reduce_all"
  /\ IF i < 0
     THEN /\ Return(ReduceAllExhaustResult(tail_size), "exhaust", -1)
          /\ UNCHANGED <<i, tail_size, acc>>
     ELSE IF ReduceAllAccumulates(def, i)
          THEN LET t == Accumulate(tail_size, def, i)
               IN  /\ tail_size' = t
                   /\ acc' = acc \cup {i}
                   /\ IF ReduceAllCapReached(t, natural_width)
                      THEN /\ Return(ReduceAllCapResult(natural_width, i), "cap", i)
                           /\ i' = i
                      ELSE /\ i' = i - 1
                           /\ UNCHANGED <<vector_width, fuse_dim, ret_path,
                                          stop_index, pc>>
          ELSE /\ Return(ReduceAllStopResult(natural_width, tail_size, i), "stop", i)
               /\ UNCHANGED <<i, tail_size, acc>>
  /\ UNCHANGED <<def, axes_, natural_width, axes, j, last_dim_aligned>>
  /\ UNCHANGED <<ctorVars, supVars, epVars, unpackVars>>

\* one iteration of the reduce last loop, or its exit
ReduceLastStep ==
  /\ pc = "reduce_last"
  /\ IF i < 0
     THEN /\ Return(ReduceLastExhaustResult(tail_size), "exhaust", -1)
          /\ UNCHANGED <<i, j, tail_size, acc>>
     ELSE IF ReduceLastAccumulates(def, axes, i, j)
          THEN LET t == Accumulate(tail_size, def, i)
               IN  /\ tail_size' = t
                   /\ acc' = acc \cup {i}
                   /\ j' = ConsumeAxis(j)
                   /\ IF ReduceLastCapReached(t, natural_width)
                      THEN /\ Return(ReduceLastCapResult(natural_width, i), "cap", i)
                           /\ i' = i
                      ELSE /\ i' = i - 1
                           /\ UNCHANGED <<vector_width, fuse_dim, ret_path,
                                          stop_index, pc>>
          ELSE /\ Return(ReduceLastStopResult(natural_width, tail_size, i), "stop", i)
               /\ UNCHANGED <<i, j, tail_size, acc>>
  /\ UNCHANGED <<def, axes_, natural_width, axes, last_dim_aligned>>
  /\ UNCHANGED <<ctorVars, supVars, epVars, unpackVars>>

\* one iteration of the reduce other loop, or its exit
ReduceOtherStep ==
  /\ pc = "reduce_other"
  /\ IF i < 0
     THEN /\ Return(ReduceOtherExhaustResult(tail_size), "exhaust", -1)
          /\ UNCHANGED <<i, j, tail_size, acc>>
     ELSE IF ReduceOtherAccumulates(def, axes, i, j)
          THEN LET t == Accumulate(tail_size, def, i)
               IN  /\ tail_size' = t
                   /\ acc' = acc \cup {i}
                   /\ j' = ConsumeAxis(j)
                   /\ IF ReduceOtherCapReached(t, natural_width)
                      THEN /\ Return(ReduceOtherCapResult(natural_width, i), "cap", i)
                           /\ i' = i
                      ELSE /\ i' = i - 1
                           /\ UNCHANGED <<vector_width, fuse_dim, ret_path,
                                          stop_index, pc>>
          ELSE /\ Return(ReduceOtherStopResult(natural_width, tail_size, i), "stop", i)
               /\ UNCHANGED <<i, j, tail_size, acc>>
  /\ UNCHANGED <<def, axes_, natural_width, axes, last_dim_aligned>>
  /\ UNCHANGED <<ctorVars, supVars, epVars, unpackVars>>

\* the rest of operator(): last_dim_aligned and the call of func_
Finish ==
  /\ pc = "returned"
  /\ last_dim_aligned' \in LastDimAlignedOutcomes(def, vector_width)
  /\ pc' = "done"
  /\ UNCHANGED <<def, axes_, natural_width, axes, i, j, tail_size, acc,
                 stop_index, ret_path, vector_width, fuse_dim>>
  /\ UNCHANGED <<ctorVars, supVars, epVars, unpackVars>>

Next ==
  \/ Call
  \/ ReduceAllStep
  \/ ReduceLastStep
  \/ ReduceOtherStep
  \/ Finish

Spec == Init /\ [][Next]_vars

SpecWide == InitWide /\ [][Next]_vars

(***************************************************************************)
(* Vocabulary of the properties, stated on the inputs of the call.         *)
(***************************************************************************)
Rank == ShapeRank(def)

\* the planner has returned
Returned == pc \in {"returned", "done"}

\* the axes handed to the planner are a sorted set: strictly increasing
SortedAxes ==
  \A a, b \in DOMAIN axes : a < b => axes[a] < axes[b]

AxisSet == {axes[k] : k \in DOMAIN axes}

IsReduceAll == Rank >= 1 /\ Size(axes) = 0

IsReduceLast ==
  Rank >= 1 /\ Size(axes) > 0 /\ axes[Size(axes) - 1] = Rank - 1

IsReduceOther ==
  Rank >= 1 /\ Size(axes) > 0 /\ axes[Size(axes) - 1] # Rank - 1

RECURSIVE ProductOver(_, _)
\* product of the extents of the dimensions in S (1 for the empty set)
ProductOver(d, S) ==
  IF S = {} THEN 1
  ELSE LET k == CHOOSE x \in S : TRUE
       IN  d[k] * ProductOver(d, S \ {k})

\* product of the extents of dimensions k .. rank-1
SuffixProduct(d, k) == ProductOver(d, k .. ShapeRank(d) - 1)

AllKnown(d) == \A k \in DOMAIN d : d[k] # Unknown

\* 0-indexed vectors written as tuples
Vec(t) == [k \in 0 .. Len(t) - 1 |-> t[k + 1]]

(***************************************************************************)
(* C1: for sorted axes, the returned vector_width never exceeds the        *)
(* product of the known extents the walk accumulated (the tail product),   *)
(* in all three patterns and for rank 0.                                   *)
(* Stated as the claim reads; the walks return natural_width when they     *)
(* stop at index 0, whatever was accumulated.                              *)
(***************************************************************************)
C1_VectorWidthWithinTailProduct ==
  (Returned /\ SortedAxes) => vector_width <= ProductOver(def, acc)

(***************************************************************************)
(* C2: on every return path, and for rank 0, the returned vector_width is  *)
(* at most natural_width.                                                  *)
(***************************************************************************)
C2_VectorWidthAtMostNatural ==
  Returned => vector_width <= natural_width

\* a walk returned its running product, which is below natural_width
C2_Witness ==
  /\ pc = "done"
  /\ ret_path = "stop"
  /\ stop_index > 0
  /\ vector_width > 1
  /\ vector_width < natural_width

(***************************************************************************)
(* C3: reduce all, an unknown dimension met at index u after at least one  *)
(* extent was accumulated and the running product is still below           *)
(* natural_width.                                                          *)
(***************************************************************************)
\* the innermost unknown dimension
InnermostUnknown(d) ==
  CHOOSE u \in DOMAIN d :
    d[u] = Unknown /\ \A k \in DOMAIN d : k > u => d[k] # Unknown

C3_Case ==
  /\ Returned
  /\ IsReduceAll
  /\ ~AllKnown(def)
  /\ InnermostUnknown(def) < Rank - 1
  /\ \A k \in InnermostUnknown(def) + 1 .. Rank - 1 :
       SuffixProduct(def, k) < natural_width

\* C3 as the claim reads: the planner returns (natural_width, u - 1); taken
\* for u > 0, where u - 1 is the index of a dimension
C3_StopReturnsNaturalWidth ==
  (C3_Case /\ InnermostUnknown(def) > 0) =>
    /\ vector_width = natural_width
    /\ fuse_dim = InnermostUnknown(def) - 1

\* C3 amended: the planner returns the running product and u - 1 when u > 0,
\* and (natural_width, 0) when u = 0
C3_StopReturnsTailSize ==
  C3_Case =>
    LET u == InnermostUnknown(def)
    IN  IF u > 0
        THEN /\ vector_width = SuffixProduct(def, u + 1)
             /\ fuse_dim = u - 1
        ELSE /\ vector_width = natural_width
             /\ fuse_dim = 0

\* shape [8, unknown, 4] with natural_width 8 gives (4, 0)
C3_Witness ==
  /\ pc = "done"
  /\ def = Vec(<<8, Unknown, 4>>)
  /\ Size(axes) = 0
  /\ natural_width = 8
  /\ vector_width = 4
  /\ fuse_dim = 0

(***************************************************************************)
(* C4: the innermost dimension has unknown extent, rank >= 1.              *)
(***************************************************************************)
C4_Case ==
  /\ Returned
  /\ Rank >= 1
  /\ def[Rank - 1] = Unknown

\* C4 as the claim reads: the planner returns exactly (natural_width, 0)
C4_InnermostUnknownReturnsNaturalWidth ==
  C4_Case => vector_width = natural_width /\ fuse_dim = 0

\* C4 amended: (natural_width, 0) for rank 1, (1, rank - 2) for rank >= 2,
\* in all three patterns
C4_InnermostUnknownResult ==
  C4_Case =>
    IF Rank = 1
    THEN vector_width = natural_width /\ fuse_dim = 0
    ELSE vector_width = 1 /\ fuse_dim = Rank - 2

\* rank 3, reduce other, innermost dimension unknown: (1, 1)
C4_Witness ==
  /\ pc = "done"
  /\ Rank = 3
  /\ def[2] = Unknown
  /\ IsReduceOther
  /\ natural_width = 8
  /\ vector_width = 1
  /\ fuse_dim = 1

(***************************************************************************)
(* C5: reduce all with a fully static shape of rank >= 1: the result is    *)
(* (natural_width, i) for the largest i whose suffix product reaches       *)
(* natural_width, and (product of all extents, 0) when there is none.      *)
(***************************************************************************)
C5_ReduceAllStatic ==
  (Returned /\ IsReduceAll /\ AllKnown(def)) =>
    LET reach == {k \in DOMAIN def : SuffixProduct(def, k) >= natural_width}
    IN  IF reach # {}
        THEN /\ vector_width = natural_width
             /\ fuse_dim = CHOOSE k \in reach : \A m \in reach : m <= k
        ELSE /\ vector_width = SuffixProduct(def, 0)
             /\ fuse_dim = 0

\* shape [8, 16] with natural_width 8 gives (8, 1)
C5_Witness ==
  /\ pc = "done"
  /\ def = Vec(<<8, 16>>)
  /\ Size(axes) = 0
  /\ natural_width = 8
  /\ vector_width = 8
  /\ fuse_dim = 1

(***************************************************************************)
(* C6: reduce other with sorted axes: no dimension of the reduction axis   *)
(* set is ever multiplied into tail_size.                                  *)
(* Stated as the claim reads; the walk steps to the next axis each time it *)
(* accumulates, so with two or more axes it compares against an outer axis *)
(* and takes a reduced dimension for a carried one.                        *)
(***************************************************************************)
C6_ReduceOtherSkipsReducedDims ==
  (pc # "start" /\ IsReduceOther /\ SortedAxes) => acc \cap AxisSet = {}

(***************************************************************************)
(* C7: shape [4, 8], axes = [1], natural_width 8.                          *)
(***************************************************************************)
C7_Case ==
  /\ pc = "done"
  /\ def = Vec(<<4, 8>>)
  /\ axes_ = Vec(<<1>>)
  /\ natural_width = 8

\* C7 as the claim reads: the plan is (8, 0, true)
C7_PlanFuseDimZero ==
  C7_Case => vector_width = 8 /\ fuse_dim = 0 /\ last_dim_aligned

\* C7 amended: the plan is (8, 1, true)
C7_PlanFuseDimOne ==
  C7_Case => vector_width = 8 /\ fuse_dim = 1 /\ last_dim_aligned

C7_Witness ==
  C7_Case /\ vector_width = 8 /\ fuse_dim = 1 /\ last_dim_aligned

(***************************************************************************)
(* C8: for a shape with an innermost dimension, last_dim_aligned is true   *)
(* iff that dimension's extent is known and an exact multiple of the       *)
(* vector_width of the same call; it is false when the extent is unknown.  *)
(***************************************************************************)
C8_LastDimAligned ==
  (pc = "done" /\ Rank >= 1) =>
    LET last == def[Rank - 1]
    IN  last_dim_aligned <=>
          /\ last # Unknown
          /\ \E q \in 1 .. last : last = q * vector_width

\* a known innermost extent 3 that is no multiple of vector_width 4
C8_Witness ==
  /\ pc = "done"
  /\ Rank >= 2
  /\ def[Rank - 1] = 3
  /\ vector_width = 4
  /\ ~last_dim_aligned

(***************************************************************************)
(* NupharExecutionProvider::NupharExecutionProvider: the choice of the     *)
(* code generation target.                                                 *)
(***************************************************************************)
llvm_target_str == "llvm"

stackvm_target_str == "stackvm"

\* the default target: the llvm auto-detect profile when the build has a
\* native code generation path, the portable stackvm baseline when not
default_nuphar_target_str(with_llvm) ==
  IF with_llvm THEN llvm_target_str ELSE stackvm_target_str

CodeGenTarget_AVX512 == Target("CodeGenTarget_AVX512", "LLVM_TARGET_AVX512", 0)

CodeGenTarget_AVX2 == Target("CodeGenTarget_AVX2", "LLVM_TARGET_AVX2", 0)

\* the else branch of the CPU probe: CodeGenTargetX86(target_str, 128, 1)
BaselineX86Target(name) == Target("CodeGenTargetX86", name, 128)

\* the llvm branch: auto detect from CPU ID
AutoDetectTarget(name, avx512f, avx2) ==
  IF avx512f THEN CodeGenTarget_AVX512
  ELSE IF avx2 THEN CodeGenTarget_AVX2
  ELSE BaselineX86Target(name)

\* the exception of ORT_NOT_IMPLEMENTED in place of a target
NotImplemented == Target("ORT_NOT_IMPLEMENTED", "", 0)

\* the branches on target_str
SelectCodeGenTarget(name, avx512f, avx2) ==
  IF name = llvm_target_str THEN AutoDetectTarget(name, avx512f, avx2)
  ELSE IF name = "avx2" THEN CodeGenTarget_AVX2
  ELSE IF name = "avx512" THEN CodeGenTarget_AVX512
  ELSE IF name # stackvm_target_str THEN Target("CodeGenTarget", name, 0)
  ELSE NotImplemented

GetCurrentHostTargetString(with_llvm, avx512f, avx2) ==
  IF with_llvm
  THEN IF avx512f THEN "LLVM_TARGET_AVX512"
       ELSE IF avx2 THEN "LLVM_TARGET_AVX2"
       ELSE llvm_target_str
  ELSE stackvm_target_str

\* values of the target option explored
TargetOptionValues ==
  {"", "stackvm", "llvm", "avx2", "avx512", "avx", "cuda", "AVX2"}

\* no reduce planning call is in progress
PlanIdle ==
  /\ def = << >>
  /\ axes_ = << >>
  /\ natural_width = 1
  /\ pc = "idle"
  /\ axes = << >>
  /\ i = 0
  /\ j = 0
  /\ tail_size = 0
  /\ acc = {}
  /\ stop_index = -1
  /\ ret_path = "none"
  /\ vector_width = 0
  /\ fuse_dim = 0
  /\ last_dim_aligned = FALSE

\* the constructor is entered with some settings on some host
InitTarget ==
  /\ PlanIdle
  /\ SupIdle
  /\ EpIdle
  /\ UnpackIdle
  /\ use_tvm_with_llvm \in BOOLEAN
  /\ has_avx512f \in BOOLEAN
  /\ has_avx2 \in BOOLEAN
  /\ has_target_option \in BOOLEAN
  /\ target_option \in TargetOptionValues
  /\ (~has_target_option => target_option = "")
  /\ enable_per_node_parallel \in BOOLEAN
  /\ allow_unaligned_buffers \in BOOLEAN
  /\ ctor_pc = "entered"
  /\ target_str = ""
  /\ codegen_target_ = NullTarget
  /\ tvm_target_ = ""
  /\ tvm_host_target_ = ""
  /\ handle = NullHandle

\* target_str from the settings, the default when it is empty
ResolveTargetString ==
  /\ ctor_pc = "entered"
  /\ LET given == IF has_target_option THEN target_option ELSE ""
     IN  target_str' = IF given = ""
                       THEN default_nuphar_target_str(use_tvm_with_llvm)
                       ELSE given
  /\ ctor_pc' = "resolved"
  /\ UNCHANGED <<use_tvm_with_llvm, has_avx512f, has_avx2, has_target_option,
                 target_option, enable_per_node_parallel,
                 allow_unaligned_buffers, codegen_target_, tvm_target_,
                 tvm_host_target_, handle>>
  /\ UNCHANGED <<planVars, supVars, epVars, unpackVars>>

\* codegen_target_ from target_str, or the exception that ends construction
ChooseCodeGenTarget ==
  /\ ctor_pc = "resolved"
  /\ LET t == SelectCodeGenTarget(target_str, has_avx512f, has_avx2)
     IN  IF t = NotImplemented
         THEN /\ ctor_pc' = "failed"
              /\ UNCHANGED codegen_target_
         ELSE /\ ctor_pc' = "targeted"
              /\ codegen_target_' = t
  /\ UNCHANGED <<use_tvm_with_llvm, has_avx512f, has_avx2, has_target_option,
                 target_option, enable_per_node_parallel,
                 allow_unaligned_buffers, target_str, tvm_target_,
                 tvm_host_target_, handle>>
  /\ UNCHANGED <<planVars, supVars, epVars, unpackVars>>

\* CreateTVMTarget, the host target, the code generation handle
FinishConstruction ==
  /\ ctor_pc = "targeted"
  /\ tvm_target_' = codegen_target_.name
  /\ tvm_host_target_' =
       GetCurrentHostTargetString(use_tvm_with_llvm, has_avx512f, has_avx2)
  /\ handle' = [codegen_target |-> codegen_target_,
                enable_per_node_parallelized |-> enable_per_node_parallel,
                allow_unaligned_buffers |-> allow_unaligned_buffers]
  /\ ctor_pc' = "constructed"
  /\ UNCHANGED <<use_tvm_with_llvm, has_avx512f, has_avx2, has_target_option,
                 target_option, enable_per_node_parallel,
                 allow_unaligned_buffers, target_str, codegen_target_>>
  /\ UNCHANGED <<planVars, supVars, epVars, unpackVars>>

NextTarget ==
  \/ ResolveTargetString
  \/ ChooseCodeGenTarget
  \/ FinishConstruction

SpecTarget == InitTarget /\ [][NextTarget]_vars

(***************************************************************************)
(* Vocabulary of the construction properties.                              *)
(***************************************************************************)
\* construction has ended, with a provider or with the exception
CtorEnded == ctor_pc \in {"constructed", "failed"}

RecognizedProfiles == {"stackvm", "llvm", "avx2", "avx512"}

(***************************************************************************)
(* C9: construction succeeds when the configured target string is absent   *)
(* or one of stackvm, llvm, avx2, avx512, and fails for every other        *)
(* non-empty target string.                                                *)
(* Stated as the claim reads, for a configured (non-empty) target string;  *)
(* an absent one resolves through default_nuphar_target_str to llvm or     *)
(* stackvm and meets the same branches.  The last two branches of the      *)
(* constructor are the wrong way round: stackvm raises the "should be one  *)
(* of stackvm/llvm/avx2/avx512" error and every unknown name is accepted.  *)
(***************************************************************************)
C9_OnlyRecognizedProfilesConstruct ==
  (CtorEnded /\ has_target_option /\ target_option # "") =>
    IF target_option \in RecognizedProfiles
    THEN ctor_pc = "constructed"
    ELSE ctor_pc = "failed"

(***************************************************************************)
(* C10: when target_str resolves to the llvm auto-detect profile the       *)
(* target is AVX512 with AVX512F, else AVX2 with AVX2, else the 128-bit    *)
(* baseline; when it resolves to stackvm, construction still yields a      *)
(* target and no error.                                                    *)
(* Stated as the claim reads; the stackvm half fails on the branch that C9 *)
(* fails on.                                                               *)
(***************************************************************************)
C10_AutoProbeAndPortableBaseline ==
  CtorEnded =>
    /\ target_str = "llvm" =>
         /\ ctor_pc = "constructed"
         /\ codegen_target_ =
              IF has_avx512f THEN CodeGenTarget_AVX512
              ELSE IF has_avx2 THEN CodeGenTarget_AVX2
              ELSE Target("CodeGenTargetX86", "llvm", 128)
    /\ target_str = "stackvm" =>
         /\ ctor_pc = "constructed"
         /\ codegen_target_ # NullTarget

\* the auto-probe half of C10 alone, which holds
AutoProbeSelectsHighestLevel ==
  (CtorEnded /\ target_str = "llvm") =>
    /\ ctor_pc = "constructed"
    /\ codegen_target_ =
         IF has_avx512f THEN CodeGenTarget_AVX512
         ELSE IF has_avx2 THEN CodeGenTarget_AVX2
         ELSE Target("CodeGenTargetX86", "llvm", 128)

(***************************************************************************)
(* NupharExecutionProvider::GetCapability: is_supported_func.              *)
(***************************************************************************)
HasDimValue(dim) == dim.kind = "value"

HasDimParam(dim) == dim.kind = "param"

\* mutant: any dim_value counts
DimDefined_AnyValue(dim) == HasDimValue(dim) \/ HasDimParam(dim)

\* the test inside the loop over def.Shape()->dim()
DimDefined(dim) == (HasDimValue(dim) /\ dim.v > 0) \/ HasDimParam(dim)

\* node.ForEachDef: the input and the output defs
Defs(node) ==
  {node.inputs[k] : k \in DOMAIN node.inputs}
    \cup {node.outputs[k] : k \in DOMAIN node.outputs}

\* all_shape_defined after ForEachDef
AllShapeDefined(node) ==
  \A d \in Defs(node) :
    /\ d.shape.present
    /\ \A k \in DOMAIN d.shape.dim : DimDefined(d.shape.dim[k])

IsConstantInitializer(g, name) == name \in g.constants

\* the int64 values of the axes tensor
GetSliceAxesFromTensorProto(tp) == tp.ints

\* some axis of axes has no dim_value in the shape of def
HasUnknownShapeOnAxes(d, ax) ==
  \E k \in DOMAIN ax : ~HasDimValue(d.shape.dim[ax[k] + 1])

\* mutant: a fifth input is not taken for steps
SliceHasSteps_Late(node) == Len(node.inputs) > 5

\* has_steps
SliceHasSteps(node) == Len(node.inputs) > 4

\* Slice-10: starts, ends or axes is no constant initializer, or steps is given
SliceOperandsRejected(g, node) ==
  LET is_starts_dynamic == ~IsConstantInitializer(g, node.inputs[2].name)
      is_ends_dynamic   == ~IsConstantInitializer(g, node.inputs[3].name)
      is_axes_dynamic   == /\ Len(node.inputs) > 3
                           /\ ~IsConstantInitializer(g, node.inputs[4].name)
  IN  is_starts_dynamic \/ is_ends_dynamic \/ is_axes_dynamic
        \/ SliceHasSteps(node)

\* the vector axes: from the axes operand, or from the axes attribute
SliceAxes(g, node) ==
  IF Len(node.inputs) > 1
  THEN IF Len(node.inputs) > 3 /\ g.tensors[node.inputs[4].name].present
       THEN GetSliceAxesFromTensorProto(g.tensors[node.inputs[4].name])
       ELSE << >>
  ELSE node.attr_axes

\* the Slice block
SliceSupported(g, node) ==
  IF Len(node.inputs) > 1 /\ SliceOperandsRejected(g, node)
  THEN FALSE
  ELSE ~HasUnknownShapeOnAxes(node.inputs[1], SliceAxes(g, node))

is_supported_func(g, node) ==
  IF ~AllShapeDefined(node) \/ ~node.has_kernel
  THEN FALSE
  ELSE IF node.op_type = "Tile"
            /\ ~IsConstantInitializer(g, node.inputs[2].name)
       THEN FALSE
       ELSE IF node.op_type = "Slice"
            THEN SliceSupported(g, node)
            ELSE TRUE

(***************************************************************************)
(* The nodes explored by SpecSupport.                                      *)
(***************************************************************************)
\* largest rank of the data input explored
SupMaxRank == 2

DimKinds == {DimValue(0), DimValue(2), DimParam, DimNone}

DataShapes ==
  {NoShape} \cup
    {ShapeOf(t) : t \in UNION {[1 .. r -> DimKinds] : r \in 1 .. SupMaxRank}}

OutputShapes ==
  {NoShape} \cup {ShapeOf(<<k>>) : k \in DimKinds}

\* the shape of the 1-D operands
OperandShape == ShapeOf(<<DimValue(1)>>)

Operand(name) == Arg(name, OperandShape)

\* increasing sequences of valid axes of a shape
RECURSIVE IncreasingSeq(_)
IncreasingSeq(S) ==
  IF S = {} THEN << >>
  ELSE LET m == CHOOSE x \in S : \A y \in S : x <= y
       IN  <<m>> \o IncreasingSeq(S \ {m})

AxesChoices(shape) ==
  IF shape.present
  THEN {IncreasingSeq(S) : S \in SUBSET (0 .. Len(shape.dim) - 1)}
  ELSE {<< >>}

SliceOperands(n) ==
  IF n = 1 THEN << >>
  ELSE IF n = 3 THEN <<Operand("starts"), Operand("ends")>>
  ELSE IF n = 4 THEN <<Operand("starts"), Operand("ends"), Operand("axes")>>
  ELSE <<Operand("starts"), Operand("ends"), Operand("axes"),
         Operand("steps")>>

\* the operand names whose constness the node's check reads
OperandNames(op, n) ==
  IF op = "Tile" THEN {"repeats"}
  ELSE IF op = "Slice" /\ n = 3 THEN {"starts", "ends"}
  ELSE IF op = "Slice" /\ n = 4 THEN {"starts", "ends", "axes"}
  ELSE IF op = "Slice" /\ n = 5 THEN {"starts", "ends", "axes", "steps"}
  ELSE {}

\* the inputs of the node after the data input
OperandInputs(op, n) ==
  IF op = "Add" THEN <<Operand("B")>>
  ELSE IF op = "Tile" THEN <<Operand("repeats")>>
  ELSE SliceOperands(n)

\* the op types explored, with their numbers of inputs: Add, Tile, and Slice
\* in the attribute form (1) and in the operand form (3, 4 or 5)
OpForms ==
  {<<"Add", 2>>, <<"Tile", 2>>, <<"Slice", 1>>, <<"Slice", 3>>,
   <<"Slice", 4>>, <<"Slice", 5>>}

\* the graph of one node
OneNodeGraph(op, n, hk, ds, os, consts, ax) ==
  Graph(<<Node("n", op, hk, <<Arg("data", ds)>> \o OperandInputs(op, n),
               <<Arg("Y", os)>>, IF op = "Slice" /\ n = 1 THEN ax ELSE << >>)>>,
        [NoTensors EXCEPT !["axes"] =
           IF "axes" \in consts
           THEN Proto("INT64", Len(ax), 0, Len(ax), "axes", ax)
           ELSE NoProto],
        consts, TRUE, NoVersions)

InitSupport ==
  /\ PlanIdle
  /\ CtorIdle
  /\ EpIdle
  /\ UnpackIdle
  /\ \E f \in OpForms, hk \in BOOLEAN, ds \in DataShapes, os \in OutputShapes :
       \E consts \in SUBSET OperandNames(f[1], f[2]) :
         \E ax \in IF f[1] = "Slice" /\ f[2] # 3
                   THEN AxesChoices(ds) ELSE {<< >>} :
           sup_graph = OneNodeGraph(f[1], f[2], hk, ds, os, consts, ax)
  /\ sup_result = FALSE
  /\ sup_pc = "start"

\* the partitioner asks is_supported_func about the node
EvaluateSupported ==
  /\ sup_pc = "start"
  /\ sup_result' = is_supported_func(sup_graph, sup_graph.nodes[1])
  /\ sup_pc' = "done"
  /\ UNCHANGED sup_graph
  /\ UNCHANGED <<planVars, ctorVars, epVars, unpackVars>>

NextSupport == EvaluateSupported

SpecSupport == InitSupport /\ [][NextSupport]_vars

(***************************************************************************)
(* Claims about eligibility, stated over the node and the returned value.  *)
(***************************************************************************)
\* the node is_supported_func was asked about
SupNode == sup_graph.nodes[1]

SupEvaluated == sup_pc = "done"

\* every input and output of the node has a shape
EveryDefHasShape == \A d \in Defs(SupNode) : d.shape.present

\* the dimensions of the inputs and outputs of the node
IncidentDims ==
  UNION {{d.shape.dim[k] : k \in DOMAIN d.shape.dim} : d \in Defs(SupNode)}

\* a dimension with neither a concrete extent nor a symbolic name
DimBare(dim) == dim.kind = "none"

\* a concrete extent that is not positive, and no symbolic name
DimZeroExtent(dim) == dim.kind = "value" /\ dim.v <= 0

\* a node with a kernel and no opcode-specific rule
PlainNode == SupNode.op_type = "Add" /\ SupNode.has_kernel

\* C11 as the claim reads: a dimension is resolved by a concrete extent of
\* any value, so a plain node whose every incident shape is present and whose
\* every dimension has an extent or a name is not rejected.
C11_AnyExtentResolves ==
  (SupEvaluated /\ PlainNode /\ EveryDefHasShape
     /\ \A dim \in IncidentDims : ~DimBare(dim))
    => sup_result = TRUE

\* C11 amended: a node is unsupported whenever an incident shape is missing
\* or has a dimension with neither extent nor name, and also when a dimension
\* has an extent that is not positive and no name; a plain node with every
\* incident dimension named or of positive extent is supported.
C11_PositiveExtentOrNameResolves ==
  SupEvaluated =>
    LET complete ==
          /\ EveryDefHasShape
          /\ \A dim \in IncidentDims : ~DimBare(dim) /\ ~DimZeroExtent(dim)
    IN  /\ ~complete => sup_result = FALSE
        /\ (complete /\ PlainNode) => sup_result = TRUE

\* C11 witness: a plain node whose only unresolved dimension is an extent of 0
\* has been reported unsupported.
C11_Witness ==
  /\ SupEvaluated /\ PlainNode /\ EveryDefHasShape
  /\ \A dim \in IncidentDims : ~DimBare(dim)
  /\ \E dim \in IncidentDims : DimZeroExtent(dim)
  /\ sup_result = FALSE

\* the generic rules pass: shapes resolved and a kernel exists
GenericRulesPass ==
  /\ EveryDefHasShape
  /\ \A dim \in IncidentDims : ~DimBare(dim) /\ ~DimZeroExtent(dim)
  /\ SupNode.has_kernel

\* the names of the inputs of the node after the data input
SupOperandNames ==
  {SupNode.inputs[k].name : k \in 2 .. Len(SupNode.inputs)}

\* the axes the Slice names: the attribute in the one-input form, the content
\* of the axes operand in the operand form
SlicedAxes ==
  IF Len(SupNode.inputs) = 1 THEN SupNode.attr_axes
  ELSE IF "axes" \in SupOperandNames THEN sup_graph.tensors["axes"].ints
  ELSE << >>

\* C12: a Slice passing the generic rules is unsupported exactly when starts,
\* ends or axes is given and is no constant initializer, or steps is given, or
\* a sliced axis of the data input has no known extent; this holds in the
\* one-input form and in the operand form.
C12_SliceSupportedExactly ==
  (SupEvaluated /\ SupNode.op_type = "Slice" /\ GenericRulesPass) =>
    LET not_constant ==
          \E nm \in SupOperandNames \cap {"starts", "ends", "axes"} :
            nm \notin sup_graph.constants
        steps_given == "steps" \in SupOperandNames
        unknown_extent ==
          \E k \in DOMAIN SlicedAxes :
            SupNode.inputs[1].shape.dim[SlicedAxes[k] + 1].kind # "value"
    IN  sup_result = ~(not_constant \/ steps_given \/ unknown_extent)

\* C12 witness: a Slice with four inputs, all constant, naming an axis of
\* known extent, has been reported supported.
C12_Witness ==
  /\ SupEvaluated /\ SupNode.op_type = "Slice" /\ GenericRulesPass
  /\ Len(SupNode.inputs) = 4
  /\ SlicedAxes # << >>
  /\ sup_result = TRUE

(***************************************************************************)
(* NupharExecutionProvider::SaveInitializer and utils::UnpackTensor.       *)
(***************************************************************************)
\* the data types the switch of SaveInitializer unpacks
UnpackedTypes ==
  {"BOOL", "DOUBLE", "FLOAT", "FLOAT16", "INT8", "INT16", "INT32", "INT64",
   "UINT8", "UINT16", "UINT32", "UINT64"}

\* sizeof(T)
ElementSize(dt) ==
  CASE dt \in {"BOOL", "INT8", "UINT8"} -> 1
    [] dt \in {"FLOAT16", "INT16", "UINT16"} -> 2
    [] dt \in {"FLOAT", "INT32", "UINT32"} -> 4
    [] OTHER -> 8

\* throws unless the raw data has expected_size * sizeof(T) bytes
UnpackTensorWithRawData(raw_len, expected_size, dt) ==
  IF raw_len # expected_size * ElementSize(dt) THEN "FAIL" ELSE "OK"

\* UnpackTensor<T>(proto, raw_data or nullptr, raw_data().size(), p_data,
\* shape.Size()) with p_data not null and T chosen by data_type
UnpackTensor(proto) ==
  IF proto.raw_len # 0
  THEN UnpackTensorWithRawData(proto.raw_len, proto.size, proto.data_type)
  ELSE IF proto.field_size # proto.size THEN "FAIL" ELSE "OK"

\* mutant: an entry already stored is replaced
SaveInitializer_Overwrite(store, name, proto) ==
  IF proto.data_type \notin UnpackedTypes
  THEN [status |-> "NOT_IMPLEMENTED", store |-> store]
  ELSE IF UnpackTensor(proto) # "OK"
  THEN [status |-> UnpackTensor(proto), store |-> store]
  ELSE [status |-> "OK",
        store |-> [store EXCEPT
                     ![name] = Tensor(proto.data_type, proto.size,
                                      proto.payload)]]

\* mutant: the tensor is stored before it is unpacked
SaveInitializer_EmplaceFirst(store, name, proto) ==
  LET stored == [store EXCEPT
                   ![name] = Tensor(proto.data_type, proto.size,
                                    proto.payload)]
  IN  IF store[name].present THEN [status |-> "OK", store |-> store]
      ELSE IF proto.data_type \notin UnpackedTypes
      THEN [status |-> "NOT_IMPLEMENTED", store |-> stored]
      ELSE [status |-> UnpackTensor(proto), store |-> stored]

\* mutant: a stored entry is compared with the proto given
SaveInitializer_DetectsConflict(store, name, proto) ==
  IF store[name].present
  THEN [status |-> IF store[name] = Tensor(proto.data_type, proto.size,
                                           proto.payload)
                   THEN "OK" ELSE "FAIL",
        store |-> store]
  ELSE IF proto.data_type \notin UnpackedTypes
  THEN [status |-> "NOT_IMPLEMENTED", store |-> store]
  ELSE IF UnpackTensor(proto) # "OK"
  THEN [status |-> UnpackTensor(proto), store |-> store]
  ELSE [status |-> "OK",
        store |-> [store EXCEPT
                     ![name] = Tensor(proto.data_type, proto.size,
                                      proto.payload)]]

\* the status returned (or NOT_IMPLEMENTED thrown) and the store afterwards
SaveInitializer(store, name, proto) ==
  IF store[name].present
  THEN [status |-> "OK", store |-> store]
  ELSE IF proto.data_type \notin UnpackedTypes
  THEN [status |-> "NOT_IMPLEMENTED", store |-> store]
  ELSE IF UnpackTensor(proto) # "OK"
  THEN [status |-> UnpackTensor(proto), store |-> store]
  ELSE [status |-> "OK",
        store |-> [store EXCEPT
                     ![name] = Tensor(proto.data_type, proto.size,
                                      proto.payload)]]

(***************************************************************************)
(* NupharExecutionProvider::GetCapability.                                 *)
(***************************************************************************)
\* the status the loop over the nodes' output shapes ends with
OutputShapeStatus(g) ==
  IF \E k \in DOMAIN g.nodes :
       \E o \in DOMAIN g.nodes[k].outputs : ~g.nodes[k].outputs[o].shape.present
  THEN "FAIL" ELSE "OK"

\* mutant: a differing version of a recorded domain is let through
VersionConflict_Ignored(g, versions) == FALSE

\* ORT_ENFORCE(iter->second == domain_version.second) fails
VersionConflict(g, versions) ==
  \E d \in Domains :
    /\ g.domain_to_version[d] # 0
    /\ versions[d] # 0
    /\ versions[d] # g.domain_to_version[d]

\* domain_versions_ after emplace of the domains in S
RecordVersions(g, versions, S) ==
  [d \in Domains |->
     IF d \in S /\ versions[d] = 0 THEN g.domain_to_version[d]
     ELSE versions[d]]

\* GraphPartitioner::Partition on a chain of nodes: the maximal runs of
\* consecutive supported nodes, in topological order
RECURSIVE Clusters(_, _, _, _)
Clusters(g, k, cur, out) ==
  LET closed == IF cur = << >> THEN out ELSE Append(out, cur)
  IN  IF k > Len(g.nodes) THEN closed
      ELSE IF is_supported_func(g, g.nodes[k])
      THEN Clusters(g, k + 1, Append(cur, g.nodes[k]), out)
      ELSE Clusters(g, k + 1, << >>, closed)

Partition(g) == Clusters(g, 1, << >>, << >>)

RECURSIVE Concat(_)
Concat(ss) == IF ss = << >> THEN << >> ELSE Head(ss) \o Concat(Tail(ss))

\* the names node.ForEachDef visits: inputs, then outputs
NodeDefNames(node) ==
  [k \in DOMAIN node.inputs |-> node.inputs[k].name]
    \o [k \in DOMAIN node.outputs |-> node.outputs[k].name]

\* mutant: only the first capability is walked
LiftedDefNames_FirstOnly(res) ==
  IF res = << >> THEN << >>
  ELSE Concat([k \in DOMAIN res[1] |-> NodeDefNames(res[1][k])])

\* the names the loops over results and their nodes visit, in order
LiftedDefNames(res) ==
  Concat([r \in DOMAIN res |->
            Concat([k \in DOMAIN res[r] |-> NodeDefNames(res[r][k])])])

\* all_initialized_tensors.find(name) != end()
IsInitializedTensor(g, name) ==
  name \in TensorNames /\ g.tensors[name].present

\* the lifting loop: stops at the first SaveInitializer that is not OK
RECURSIVE LiftAll(_, _, _)
LiftAll(g, store, names) ==
  IF names = << >> THEN [status |-> "OK", store |-> store]
  ELSE IF IsInitializedTensor(g, Head(names))
            /\ IsConstantInitializer(g, Head(names))
  THEN LET r == SaveInitializer(store, Head(names), g.tensors[Head(names)])
       IN  IF r.status # "OK" THEN r ELSE LiftAll(g, r.store, Tail(names))
  ELSE LiftAll(g, store, Tail(names))

\* what GetCapability does from the version check on
PartitionAndLift(g, store, versions) ==
  IF VersionConflict(g, versions)
  THEN {[status |-> "threw", results |-> << >>, store |-> store,
         versions |-> RecordVersions(g, versions, S), partitioned |-> FALSE] :
          S \in SUBSET {d \in Domains : versions[d] = 0}}
  ELSE LET res == Partition(g)
           lift == LiftAll(g, store, LiftedDefNames(res))
       IN  {[status |-> IF lift.status = "OK" THEN "returned" ELSE "threw",
             results |-> IF lift.status = "OK" THEN res ELSE << >>,
             store |-> lift.store,
             versions |-> RecordVersions(g, versions, Domains),
             partitioned |-> TRUE]}

\* the outcomes of GetCapability(g): returned or threw, the capabilities, the
\* store and domain_versions_ afterwards, and whether Partition ran
GetCapabilityOutcomes(g, store, versions) ==
  IF ~g.shape_inference_ok
  THEN {[status |-> "returned", results |-> << >>, store |-> store,
         versions |-> versions, partitioned |-> FALSE]}
  ELSE IF OutputShapeStatus(g) # "OK"
       THEN PartitionAndLift(g, store, versions)  \* the status is only logged
       ELSE PartitionAndLift(g, store, versions)

(***************************************************************************)
(* The graphs loaded on the provider by SpecProvider.                      *)
(***************************************************************************)
\* most NupharSubgraphUnits one call constructs
MaxUnits == 2

\* largest value of counter explored
MaxCounter == 3

\* most destructor runs on one kernel state explored
MaxTeardowns == 2

\* a resolved shape
OkShape == ShapeOf(<<DimValue(2)>>)

\* Y = Add(X, in2)
AddNode(name, in2, has_kernel, out_shape) ==
  Node(name, "Add", has_kernel, <<Arg("X", OkShape), Arg(in2, OkShape)>>,
       <<Arg("Y", out_shape)>>, << >>)

\* two floats as 8 bytes of raw_data
RawFloats(payload) == Proto("FLOAT", 2, 8, 0, payload, << >>)

\* two floats in float_data
TypedFloats(payload) == Proto("FLOAT", 2, 0, 2, payload, << >>)

\* raw_data shorter than the shape asks for
ShortRaw == Proto("FLOAT", 2, 6, 0, "c", << >>)

\* float_data longer than the shape asks for
LongTyped == Proto("FLOAT", 2, 0, 3, "d", << >>)

\* a data type SaveInitializer does not unpack
Strings == Proto("STRING", 2, 0, 2, "e", << >>)

\* another type and shape
OneInt64 == Proto("INT64", 1, 8, 0, "g", << >>)

NodeLists ==
  {<<AddNode("n1", "W", TRUE, OkShape)>>,
   <<AddNode("n1", "W", TRUE, OkShape), AddNode("n2", "R", TRUE, OkShape)>>,
   <<AddNode("n1", "W", TRUE, OkShape), AddNode("n2", "X", FALSE, OkShape),
     AddNode("n3", "R", TRUE, OkShape)>>,
   <<AddNode("n1", "W", TRUE, OkShape), AddNode("n2", "R", TRUE, NoShape)>>,
   <<AddNode("n1", "W", TRUE, NoShape)>>,
   <<AddNode("n1", "W", FALSE, OkShape)>>}

\* the opset of the default domain
OneVersion(v) == [NoVersions EXCEPT ![""] = v]

TensorsOf(w, r) == [NoTensors EXCEPT !["W"] = w, !["R"] = r]

GraphChoices ==
  LET split == <<AddNode("n1", "W", TRUE, OkShape),
                 AddNode("n2", "X", FALSE, OkShape),
                 AddNode("n3", "R", TRUE, OkShape)>>
      good == TensorsOf(RawFloats("a"), RawFloats("r"))
  IN  {Graph(nodes, good, {"W", "R"}, TRUE, OneVersion(1)) :
         nodes \in NodeLists}
      \cup
      {Graph(split, TensorsOf(w, RawFloats("r")), {"W", "R"}, TRUE,
             OneVersion(1)) :
         w \in {RawFloats("a"), TypedFloats("b"), ShortRaw, LongTyped,
                Strings, OneInt64}}
      \cup
      {Graph(split, TensorsOf(RawFloats("a"), ShortRaw), {"W", "R"}, TRUE,
             OneVersion(1)),
       Graph(split, good, {"R"}, TRUE, OneVersion(1)),
       Graph(split, good, {"W", "R"}, FALSE, OneVersion(1)),
       Graph(split, good, {"W", "R"}, TRUE, OneVersion(2)),
       Graph(split, good, {"W", "R"}, TRUE,
             [OneVersion(1) EXCEPT !["com.microsoft"] = 1])}

(***************************************************************************)
(* Compile and the three functions it registers; NupharSubgraphUnit.       *)
(***************************************************************************)
\* mutant: Compile leaves the counter alone
ResetCounter_Kept(c) == c

\* NupharSubgraphUnit::counter = 0 at the end of Compile
ResetCounter(c) == 0

\* mutant: a failure is reported as a generic failure
ComputeFuncReturn_Generic(status) ==
  IF status = "OK" THEN "OK" ELSE "FAIL"

\* return s->Compute(...)
ComputeFuncReturn(status) == status

\* the statuses NupharKernelState::Compute may return
StatusValues == {"OK", "FAIL", "INVALID_ARGUMENT"}

\* n NupharSubgraphUnits are constructed, each taking id = counter++
NewSubgraphUnits(n, after_compile) ==
  /\ counter + n <= MaxCounter
  /\ counter' = counter + n
  /\ first_id' = IF first_id = NoId /\ n > 0 THEN counter ELSE first_id
  /\ first_id_after_compile' =
       IF after_compile /\ first_id_after_compile = NoId /\ n > 0
       THEN counter ELSE first_id_after_compile

\* the provider is usable: no ORT_ENFORCE has thrown, the process is alive
Alive == gc_status # "threw" /\ ~crashed

InitProvider ==
  /\ PlanIdle
  /\ CtorIdle
  /\ SupIdle
  /\ EpIdle
  /\ UnpackIdle

\* a session load calls GetCapability(graph_viewer); the session loaded
\* before, if it compiled anything, has ended by releasing its state
GetCapability ==
  /\ Alive
  /\ ~compiled \/ last_op = "release_state"
  /\ state # "live"
  /\ \E g \in GraphChoices :
       \E o \in GetCapabilityOutcomes(
                  g, constant_initializers_used_in_compiled_nodes_,
                  domain_versions_) :
         \E n \in IF o.partitioned THEN 0 .. MaxUnits ELSE {0} :
           /\ gc_graph' = g
           /\ gc_status' = o.status
           /\ results' = o.results
           /\ constant_initializers_used_in_compiled_nodes_' = o.store
           /\ domain_versions_' = o.versions
           /\ counter + n <= MaxCounter
           /\ counter' = counter + n
           /\ first_id' = IF n > 0 THEN counter ELSE NoId
  /\ first_id_after_compile' = NoId
  /\ compiled' = FALSE
  /\ state' = "null"
  /\ teardowns' = 0
  /\ compute_call' = NoCall
  /\ last_op' = "GetCapability"
  /\ UNCHANGED crashed
  /\ last_thread' = "main"
  /\ UNCHANGED other_counter
  /\ UNCHANGED <<planVars, ctorVars, supVars, unpackVars>>

\* the session calls Compile(fused_nodes, node_compute_funcs)
Compile ==
  /\ Alive
  /\ gc_status = "returned"
  /\ results # << >>
  /\ ~compiled
  /\ compiled' = TRUE
  /\ counter' = ResetCounter(counter)
  /\ last_op' = "Compile"
  /\ UNCHANGED <<constant_initializers_used_in_compiled_nodes_,
                 domain_versions_, gc_graph, gc_status, results, state,
                 teardowns, crashed, compute_call, first_id,
                 first_id_after_compile>>
  /\ last_thread' = "main"
  /\ UNCHANGED other_counter
  /\ UNCHANGED <<planVars, ctorVars, supVars, unpackVars>>

\* create_state_func: a NupharKernelState is made and handed out
create_state ==
  /\ Alive
  /\ compiled
  /\ state # "live"
  /\ \E n \in 0 .. MaxUnits : NewSubgraphUnits(n, TRUE)
  /\ state' = "live"
  /\ teardowns' = 0
  /\ compute_call' = NoCall
  /\ last_op' = "create_state"
  /\ UNCHANGED <<constant_initializers_used_in_compiled_nodes_,
                 domain_versions_, gc_graph, gc_status, results, compiled,
                 crashed>>
  /\ last_thread' = "main"
  /\ UNCHANGED other_counter
  /\ UNCHANGED <<planVars, ctorVars, supVars, unpackVars>>

\* compute_func(state, api, context)
compute_func ==
  /\ Alive
  /\ state = "live"
  /\ \E status \in StatusValues :
       compute_call' = [invocations |-> 1, kernel_status |-> status,
                        returned |-> ComputeFuncReturn(status)]
  /\ last_op' = "compute_func"
  /\ UNCHANGED <<constant_initializers_used_in_compiled_nodes_,
                 domain_versions_, gc_graph, gc_status, results, counter,
                 compiled, state, teardowns, crashed, first_id,
                 first_id_after_compile>>
  /\ last_thread' = "main"
  /\ UNCHANGED other_counter
  /\ UNCHANGED <<planVars, ctorVars, supVars, unpackVars>>

\* release_state_func(state): if (state) delete state.  The argument is a
\* copy of the pointer, so the session's value stays what it was; deleting
\* it a second time is undefined: the destructor runs again, the process
\* dies, or nothing shows.
release_state ==
  /\ Alive
  /\ compiled
  /\ \/ /\ state = "null"
        /\ UNCHANGED <<state, teardowns, crashed>>
     \/ /\ state = "live"
        /\ state' = "freed"
        /\ teardowns' = teardowns + 1
        /\ UNCHANGED crashed
     \/ /\ state = "freed"
        /\ \/ /\ teardowns < MaxTeardowns
              /\ teardowns' = teardowns + 1
              /\ UNCHANGED <<state, crashed>>
           \/ /\ crashed' = TRUE
              /\ UNCHANGED <<state, teardowns>>
           \/ UNCHANGED <<state, teardowns, crashed>>
  /\ last_op' = "release_state"
  /\ UNCHANGED <<constant_initializers_used_in_compiled_nodes_,
                 domain_versions_, gc_graph, gc_status, results, counter,
                 compiled, compute_call, first_id, first_id_after_compile>>
  /\ last_thread' = "main"
  /\ UNCHANGED other_counter
  /\ UNCHANGED <<planVars, ctorVars, supVars, unpackVars>>

NextProvider ==
  \/ GetCapability
  \/ Compile
  \/ create_state
  \/ compute_func
  \/ release_state

SpecProvider == InitProvider /\ [][NextProvider]_vars

(***************************************************************************)
(* A second loading thread.  It runs its own compilation passes on a       *)
(* provider of its own, so of its state only its instance of the           *)
(* thread_local NupharSubgraphUnit::counter is kept.                       *)
(***************************************************************************)
Threads == {"main", "other"}

\* mutant: counter is a plain static, one object for every thread
CounterOf_Static(thread) == "main"

\* thread_local int64_t NupharSubgraphUnit::counter: the object a thread
\* names by NupharSubgraphUnit::counter is that thread's own
CounterOf(thread) == thread

\* what the second thread reads as NupharSubgraphUnit::counter
OtherThreadCounter ==
  IF CounterOf("other") = "main" THEN counter ELSE other_counter

\* the second thread assigns v to NupharSubgraphUnit::counter
OtherThreadAssigns(v) ==
  IF CounterOf("other") = "main"
  THEN counter' = v /\ UNCHANGED other_counter
  ELSE other_counter' = v /\ UNCHANGED counter

\* what a step of the second thread leaves alone
OtherThreadFrame ==
  /\ last_thread' = "other"
  /\ UNCHANGED <<constant_initializers_used_in_compiled_nodes_,
                 domain_versions_, gc_graph, gc_status, results, compiled,
                 state, teardowns, crashed, compute_call, first_id,
                 first_id_after_compile, last_op>>
  /\ UNCHANGED <<planVars, ctorVars, supVars, unpackVars>>

\* the second thread constructs n NupharSubgraphUnits, each id = counter++
OtherThreadUnits ==
  /\ \E n \in 1 .. MaxUnits :
       /\ OtherThreadCounter + n <= MaxCounter
       /\ OtherThreadAssigns(OtherThreadCounter + n)
  /\ OtherThreadFrame

\* the second thread ends a Compile: NupharSubgraphUnit::counter = 0
OtherThreadCompile ==
  /\ OtherThreadAssigns(ResetCounter(OtherThreadCounter))
  /\ OtherThreadFrame

\* the operations of loading on either thread: the ones that construct
\* NupharSubgraphUnits or assign the counter, and release_state, after which
\* this thread may load again; compute_func runs after loading and names
\* no counter
NextThreads ==
  \/ GetCapability
  \/ Compile
  \/ create_state
  \/ release_state
  \/ OtherThreadUnits
  \/ OtherThreadCompile

SpecThreads == InitProvider /\ [][NextThreads]_vars

(***************************************************************************)
(* Claims about GetCapability and the initializer store.                   *)
(***************************************************************************)
\* the store, under the name the claims use
InitializerStore == constant_initializers_used_in_compiled_nodes_

\* some node of the graph has an output without a shape
ShapeIncomplete(g) ==
  \E k \in DOMAIN g.nodes :
    \E o \in DOMAIN g.nodes[k].outputs : ~g.nodes[k].outputs[o].shape.present

\* the names of the inputs and outputs of the nodes of the capabilities
NamesInResults ==
  {d.name : d \in UNION {UNION {Defs(results[r][k]) : k \in DOMAIN results[r]} :
                           r \in DOMAIN results}}

\* an Add node the partitioner may claim: a kernel, every shape resolved
ClaimableNode(node) ==
  /\ node.has_kernel
  /\ \A d \in Defs(node) :
       /\ d.shape.present
       /\ \A k \in DOMAIN d.shape.dim :
            \/ d.shape.dim[k].kind = "param"
            \/ d.shape.dim[k].kind = "value" /\ d.shape.dim[k].v > 0

\* the constant initializers of g that claimable nodes of g refer to
LiftCandidates(g) ==
  {n \in TensorNames :
     /\ g.tensors[n].present
     /\ n \in g.constants
     /\ \E k \in DOMAIN g.nodes :
          /\ ClaimableNode(g.nodes[k])
          /\ \E d \in Defs(g.nodes[k]) : d.name = n}

\* the proto carries as much data as its shape and type ask for, in a type
\* that can be unpacked
ProtoValid(proto) ==
  /\ proto.data_type \in UnpackedTypes
  /\ proto.raw_len # 0
       => proto.raw_len = proto.size * ElementSize(proto.data_type)
  /\ proto.raw_len = 0 => proto.field_size = proto.size

\* the stored tensor has the content of the proto
SameContent(tensor, proto) ==
  /\ tensor.data_type = proto.data_type
  /\ tensor.size = proto.size
  /\ tensor.payload = proto.payload

\* this step is a call of GetCapability that gets past shape inference and
\* the opset version check
LiftingCall ==
  /\ last_op' = "GetCapability"
  /\ gc_graph'.shape_inference_ok
  /\ ~VersionConflict(gc_graph', domain_versions_)

\* C13 as the claim reads: when some node of the graph has an output without
\* shape, GetCapability returns an empty report (and so claims no node).
C13_IncompleteShapeDeclinesGraph ==
  (last_op = "GetCapability" /\ gc_graph.shape_inference_ok
     /\ ShapeIncomplete(gc_graph))
    => (gc_status = "returned" /\ results = << >>)

\* C14: an entry of the store is never removed or replaced, and a call that
\* finds every initializer it would lift already stored returns its report
\* and leaves the store as it was, whatever the new protos carry.
C14_FirstWriteWins ==
  [][/\ \A n \in TensorNames :
          InitializerStore[n].present
            => InitializerStore'[n] = InitializerStore[n]
     /\ (LiftingCall
           /\ \A n \in LiftCandidates(gc_graph') : InitializerStore[n].present)
          => (gc_status' = "returned" /\ InitializerStore' = InitializerStore)
    ]_vars

\* C14 witness: GetCapability has returned a report for a graph whose W,
\* constant and used by a claimed node, is corrupt, W being stored already.
C14_Witness ==
  /\ last_op = "GetCapability" /\ gc_status = "returned"
  /\ "W" \in NamesInResults /\ "W" \in gc_graph.constants
  /\ ~ProtoValid(gc_graph.tensors["W"])
  /\ InitializerStore["W"].present

\* C15 as the claim reads: a call that lifts a stored name again with other
\* content does not return a report.
C15_ConflictingLiftDetected ==
  [][(LiftingCall
        /\ \E n \in LiftCandidates(gc_graph') :
             /\ InitializerStore[n].present
             /\ ~SameContent(InitializerStore[n], gc_graph'.tensors[n]))
       => gc_status' # "returned"]_vars

\* C15 amended: a call that lifts a stored name again with other content is
\* not stopped by it: when its other initializers are stored or valid it
\* returns its report, and the name keeps the content stored first.
C15_ConflictingLiftAccepted ==
  [][(LiftingCall
        /\ \E n \in LiftCandidates(gc_graph') :
             /\ InitializerStore[n].present
             /\ ~SameContent(InitializerStore[n], gc_graph'.tensors[n])
        /\ \A m \in LiftCandidates(gc_graph') :
             InitializerStore[m].present \/ ProtoValid(gc_graph'.tensors[m]))
       => /\ gc_status' = "returned"
          /\ \A n \in TensorNames :
               InitializerStore[n].present
                 => InitializerStore'[n] = InitializerStore[n]]_vars

\* C15 witness: a report was returned for a graph whose valid W differs from
\* the stored W, which a claimed node uses.
C15_Witness ==
  /\ last_op = "GetCapability" /\ gc_status = "returned"
  /\ "W" \in NamesInResults /\ "W" \in gc_graph.constants
  /\ ProtoValid(gc_graph.tensors["W"])
  /\ InitializerStore["W"].present
  /\ ~SameContent(InitializerStore["W"], gc_graph.tensors["W"])

\* C16: a call that has to lift an initializer that is not stored and whose
\* data disagrees with its shape and type, or whose type is not unpacked,
\* throws, returns no report, and adds no entry under that name.
C16_CorruptInitializerIsFatal ==
  [][LiftingCall =>
       \A n \in LiftCandidates(gc_graph') :
         (~InitializerStore[n].present /\ ~ProtoValid(gc_graph'.tensors[n]))
           => /\ gc_status' = "threw"
              /\ results' = << >>
              /\ ~InitializerStore'[n].present]_vars

\* C16 witness: GetCapability threw on a short raw R, after W was stored.
C16_Witness ==
  /\ last_op = "GetCapability" /\ gc_status = "threw"
  /\ "R" \in LiftCandidates(gc_graph)
  /\ ~ProtoValid(gc_graph.tensors["R"])
  /\ ~InitializerStore["R"].present
  /\ InitializerStore["W"].present

\* C17: when a report with capabilities was returned, every constant
\* initializer named by an input or output of a node of a capability is in
\* the store; Compile, create_state, compute_func and release_state never
\* write the store.
C17_LiftedBeforeCompile ==
  /\ [](gc_status = "returned" =>
          \A n \in NamesInResults \cap TensorNames :
            (gc_graph.tensors[n].present /\ n \in gc_graph.constants)
              => InitializerStore[n].present)
  /\ [][last_op' \in {"Compile", "create_state", "compute_func",
                      "release_state"}
          => InitializerStore' = InitializerStore]_vars

\* C17 witness: a compute has run for a load of two capabilities, with both
\* constants in the store.
C17_Witness ==
  /\ last_op = "compute_func" /\ Len(results) = 2
  /\ {"W", "R"} \subseteq NamesInResults
  /\ InitializerStore["W"].present /\ InitializerStore["R"].present

(***************************************************************************)
(* Claims about the compiled functions and the subgraph id counter.        *)
(***************************************************************************)
\* C18: a call of compute_func invokes Compute of the bound state once and
\* returns the status Compute gave, success or failure, and leaves the bound
\* state as it was.
C18_ComputeStatusVerbatim ==
  [][last_op' = "compute_func"
       => /\ compute_call'.invocations = 1
          /\ compute_call'.returned = compute_call'.kernel_status
          /\ state' = state]_vars

\* C18 witness: compute_func has returned INVALID_ARGUMENT.
C18_Witness ==
  /\ last_op = "compute_func"
  /\ state = "live"
  /\ compute_call.returned = "INVALID_ARGUMENT"

\* C19 as the claim reads: a kernel state is torn down at most once, however
\* often release_state is called with its value, and the process survives.
C19_TornDownAtMostOnce == teardowns <= 1 /\ ~crashed

MapsRecordedDomainDifferently(g, versions) ==
  \E d \in Domains :
    /\ versions[d] # 0
    /\ g.domain_to_version[d] # 0
    /\ g.domain_to_version[d] # versions[d]

\* C25 as the claim reads: every call of GetCapability whose graph maps a
\* recorded domain to a different version throws and returns no report.
C25_VersionMismatchAlwaysFatal ==
  [][(last_op' = "GetCapability"
        /\ MapsRecordedDomainDifferently(gc_graph', domain_versions_))
       => gc_status' = "threw"]_vars

\* C25 amended: a recorded version never changes; a call whose graph passes
\* shape inference and maps a recorded domain to a different version throws
\* before partitioning, with no report and no initializer lifted; a call
\* whose graph fails shape inference returns an empty report before the
\* versions are looked at, mismatch or not.
C25_FirstVersionWins ==
  [][/\ \A d \in Domains :
          domain_versions_[d] # 0 => domain_versions_'[d] = domain_versions_[d]
     /\ (last_op' = "GetCapability"
           /\ MapsRecordedDomainDifferently(gc_graph', domain_versions_))
          => /\ results' = << >>
             /\ InitializerStore' = InitializerStore
             /\ gc_status' = IF gc_graph'.shape_inference_ok
                             THEN "threw" ELSE "returned"
    ]_vars

\* C25 witness: GetCapability threw on a graph that passed shape inference
\* and asks for another version of the default domain than the recorded one.
C25_Witness ==
  /\ last_op = "GetCapability" /\ gc_status = "threw"
  /\ gc_graph.shape_inference_ok
  /\ MapsRecordedDomainDifferently(gc_graph, domain_versions_)
  /\ results = << >>

(***************************************************************************)
(* Claims about the range of the planner's results.                        *)
(***************************************************************************)
\* the dimensions the pattern of the call is to accumulate
PatternDims ==
  IF IsReduceAll THEN 0 .. Rank - 1
  ELSE IF IsReduceLast THEN AxisSet
  ELSE (0 .. Rank - 1) \ AxisSet

\* C24 as the claim reads: for rank >= 1 the fuse_dim returned is an index of
\* the shape and every dimension above the index where the walk stopped has
\* a known extent and is one the pattern accumulates; for rank 0 the result
\* is (1, 0).
C24_FuseDimValidTailAccumulated ==
  Returned =>
    IF Rank = 0
    THEN vector_width = 1 /\ fuse_dim = 0
    ELSE /\ 0 <= fuse_dim /\ fuse_dim <= Rank - 1
         /\ \A k \in stop_index + 1 .. Rank - 1 :
              def[k] # Unknown /\ k \in PatternDims

\* C23 as the claim reads: with natural_width >= 1 and every known extent
\* >= 1 (each extent explored is 1, 4 or 2^32), the vector_width returned is
\* at least 1, so the remainder taken for last_dim_aligned has a divisor
\* other than zero.
C23_VectorWidthAtLeastOne ==
  (Returned /\ natural_width >= 1
     /\ \A k \in DOMAIN def :
          def[k] = Unknown \/ def[k] = Extent2Pow32 \/ def[k] >= 1)
    => vector_width >= 1

(***************************************************************************)
(* C21: each loading thread owns its NupharSubgraphUnit::counter: a step   *)
(* of one thread, an identifier assignment or the reset at the end of      *)
(* Compile, never changes the value of the other thread's counter.         *)
(***************************************************************************)
C21_CountersIndependent ==
  [][/\ last_thread' = "other" => counter' = counter
     /\ last_thread' = "main" => other_counter' = other_counter]_vars

\* this thread has just reset its counter in Compile, after having
\* numbered a unit, while the second thread's numbering stands at 1 or more
C21_Witness ==
  /\ last_thread = "main"
  /\ last_op = "Compile"
  /\ first_id # NoId
  /\ counter = 0
  /\ other_counter > 0

(***************************************************************************)
(* UnpackTensorWithRawData<T>, byte by byte.                               *)
(***************************************************************************)
\* most elements in raw_data and in p_data
MaxElements == 2

\* the values a byte of raw_data, or of p_data beforehand, may have
ByteValues == {1, 2}

\* sizeof(T)
TypeSizes == {1, 2, 4}

\* raw bytes [k * type_size, (k + 1) * type_size)
RawSlice(raw, type_size, k) == [b \in 1 .. type_size |-> raw[k * type_size + b]]

\* the bytes of an element in the opposite order
Reversed(bytes) == [b \in 1 .. Len(bytes) |-> bytes[Len(bytes) + 1 - b]]

\* memcpy(p_data, raw_data, raw_data_length)
CopiedElements(in) ==
  [k \in 0 .. in.expected_size - 1 |-> RawSlice(in.raw, in.type_size, k)]

\* the byte at buff[type_size - 1 - i], buff being raw_data + i: at i = 0 the
\* last byte of the first element; from the second element on the index is
\* below zero as a size_t and the byte read is not defined
BuffByteOutcomes(raw, type_size, byte_offset) ==
  IF byte_offset = 0 THEN {raw[type_size]} ELSE ByteValues

\* T result after the inner loop: every temp_bytes[j] holds the same byte
ResultOf(byte, type_size) == [b \in 1 .. type_size |-> byte]

\* the byte offsets i the outer loop visits
ByteOffsets(in) ==
  {k * in.type_size : k \in 0 .. Len(in.raw) \div in.type_size - 1}

\* the effects UnpackTensorWithRawData may have
UnpackOutcomes(in) ==
  LET before == [k \in 0 .. in.expected_size - 1 |->
                   ResultOf(in.prior, in.type_size)]
  IN
  IF Len(in.raw) # in.expected_size * in.type_size
  THEN {[status |-> "threw", p_data |-> before, written |-> {},
         outside |-> {}]}
  ELSE IF in.little_endian
  THEN {[status |-> "returned", p_data |-> CopiedElements(in),
         written |-> 0 .. in.expected_size - 1, outside |-> {}]}
  ELSE LET visited == ByteOffsets(in)
           \* p_data[i] = result, i being the byte offset
           inside == {o \in visited : o < in.expected_size}
           beyond == visited \ inside
       IN {[status |-> st,
            p_data |-> [k \in 0 .. in.expected_size - 1 |->
                          IF k \in inside
                          THEN ResultOf(read[k], in.type_size)
                          ELSE before[k]],
            written |-> inside,
            outside |-> beyond] :
             read \in {f \in [visited -> ByteValues] :
                         \A o \in visited :
                           f[o] \in BuffByteOutcomes(in.raw, in.type_size, o)},
             st \in IF beyond = {} THEN {"returned"}
                    ELSE {"returned", "crashed"}}

InitUnpack ==
  /\ PlanIdle
  /\ CtorIdle
  /\ SupIdle
  /\ EpIdle
  /\ \E type_size \in TypeSizes, count \in 0 .. MaxElements,
        expected_size \in 0 .. MaxElements, le \in BOOLEAN,
        prior \in ByteValues :
       \E raw \in [1 .. count * type_size -> ByteValues] :
         unpack_in = [raw |-> raw, type_size |-> type_size,
                      expected_size |-> expected_size,
                      little_endian |-> le, prior |-> prior]
  /\ unpack_out = NoUnpackResult
  /\ unpack_pc = "called"

\* one call of UnpackTensorWithRawData
UnpackRawData ==
  /\ unpack_pc = "called"
  /\ unpack_out' \in UnpackOutcomes(unpack_in)
  /\ unpack_pc' = "done"
  /\ UNCHANGED unpack_in
  /\ UNCHANGED <<planVars, ctorVars, supVars, epVars>>

NextUnpack == UnpackRawData

SpecUnpack == InitUnpack /\ [][NextUnpack]_vars

\* the call has returned or ended the process, on a host of this byte order
Unpacked(le) ==
  /\ unpack_pc = "done"
  /\ unpack_out.status # "threw"
  /\ unpack_in.little_endian = le

\* what element k of the output should be on a host of this byte order
Normalized(in, k) ==
  IF in.little_endian
  THEN RawSlice(in.raw, in.type_size, k)
  ELSE Reversed(RawSlice(in.raw, in.type_size, k))

(***************************************************************************)
(* C22: for element size s and n expected elements, unpacking a raw blob   *)
(* writes exactly output elements 0..n-1 and nothing outside them; on a    *)
(* big-endian host element k is the byte-reversal of raw bytes             *)
(* [k*s, (k+1)*s), on a little-endian host the raw bytes unchanged.        *)
(***************************************************************************)
C22_RawUnpackNormalizesByteOrder ==
  (unpack_pc = "done" /\ unpack_out.status # "threw") =>
    /\ unpack_out.status = "returned"
    /\ unpack_out.written = 0 .. unpack_in.expected_size - 1
    /\ unpack_out.outside = {}
    /\ \A k \in 0 .. unpack_in.expected_size - 1 :
         unpack_out.p_data[k] = Normalized(unpack_in, k)

\* the little-endian half of C22, which the code meets
LittleEndianUnpackCopies ==
  Unpacked(TRUE) =>
    /\ unpack_out.status = "returned"
    /\ unpack_out.written = 0 .. unpack_in.expected_size - 1
    /\ unpack_out.outside = {}
    /\ \A k \in 0 .. unpack_in.expected_size - 1 :
         unpack_out.p_data[k] = Normalized(unpack_in, k)

====
